---- MODULE Spec2Model ----
(***************************************************************************)
(* Consistency scoring pipeline of experiments/logical_consistency:        *)
(* LogicalConsistencyScorer (graph-indexed) and LogicalConsistencyScorerV2 *)
(* (triple-indexed).                                                       *)
(*                                                                         *)
(* Conventions of the model                                                *)
(*   - a Python str is a sequence of one-character strings;                *)
(*   - a Python dict is a sequence of <<key, value>> pairs in insertion    *)
(*     order; a Python set is a set, iterated in an order fixed by the     *)
(*     process's string hash seed (hashSeed);                              *)
(*   - a residual is an integer number of hundredths (50 is 0.5, 100 is    *)
(*     1.0) or Inf for float('inf'); a score is then a whole number of     *)
(*     percent points (100 - 50 = 50 for a residual of 0.5);               *)
(*   - statement_id is kept in halves (2*idx, and 2*idx+1 for idx + 0.5).  *)
(***************************************************************************)
EXTENDS Integers, Sequences, FiniteSets, TLC

VARIABLES
    variant,      \* which scorer class the process constructed: "graph" or "triple"
    hashSeed,     \* the process's string hash randomisation (orders set iteration)
    statements,   \* self.statements
    entities,     \* self.entities
    properties,   \* self.properties (LogicalConsistencyScorerV2 only)
    result,       \* the dict returned by the last compute_consistency_score call
    call,         \* observation of the last call: text, solver input/outcome, solver calls
    phase         \* "open": further texts may be scored; "closed": the observed call was made

vars == <<variant, hashSeed, statements, entities, properties, result, call, phase>>

(***************************************************************************)
(* Python str operations                                                   *)
(***************************************************************************)
Whitespace == {" ", "\t", "\n", "\r"}

Min(a, b) == IF a <= b THEN a ELSE b

Max(a, b) == IF a >= b THEN a ELSE b

\* s[i-1:] in Python terms (1-based i here)
Tail0(s, i) == SubSeq(s, i, Len(s))

\* s.startswith(p)
StartsWith(s, p) == Len(p) <= Len(s) /\ SubSeq(s, 1, Len(p)) = p

\* does sep occur in s at (1-based) position i
OccursAt(s, sep, i) ==
    /\ i >= 1
    /\ i + Len(sep) - 1 <= Len(s)
    /\ \A k \in 1..Len(sep) : s[i + k - 1] = sep[k]

\* s.find(sep, from) with 1-based positions, 0 when absent
RECURSIVE Find(_, _, _)
Find(s, sep, from) ==
    IF from + Len(sep) - 1 > Len(s) THEN 0
    ELSE IF OccursAt(s, sep, from) THEN from
    ELSE Find(s, sep, from + 1)

\* sep in s
Contains(s, sep) == Find(s, sep, 1) # 0

\* s.split(sep): non-overlapping occurrences, left to right
RECURSIVE Split(_, _)
Split(s, sep) ==
    LET i == Find(s, sep, 1)
    IN IF i = 0 THEN <<s>>
       ELSE <<SubSeq(s, 1, i - 1)>> \o Split(Tail0(s, i + Len(sep)), sep)

\* s.lstrip()
RECURSIVE LStrip(_)
LStrip(s) == IF s # <<>> /\ Head(s) \in Whitespace THEN LStrip(Tail(s)) ELSE s

\* s.rstrip()
RECURSIVE RStrip(_)
RStrip(s) ==
    IF s # <<>> /\ s[Len(s)] \in Whitespace THEN RStrip(SubSeq(s, 1, Len(s) - 1)) ELSE s

\* s.strip()
Strip(s) == RStrip(LStrip(s))

\* s.rstrip('.')
RECURSIVE RStripDot(_)
RStripDot(s) ==
    IF s # <<>> /\ s[Len(s)] = "." THEN RStripDot(SubSeq(s, 1, Len(s) - 1)) ELSE s

\* sep.join(parts)
RECURSIVE Join(_, _)
Join(parts, sep) ==
    IF parts = <<>> THEN <<>>
    ELSE IF Len(parts) = 1 THEN parts[1]
    ELSE parts[1] \o sep \o Join(Tail(parts), sep)

\* the literal separators of parse_statements
SepIsNot == <<" ", "i", "s", " ", "n", "o", "t", " ">>

SepIs == <<" ", "i", "s", " ">>

SepHas == <<" ", "h", "a", "s", " ">>

SepLacks == <<" ", "l", "a", "c", "k", "s", " ">>

SepAnd == <<" ", "a", "n", "d", " ">>

SepHave == <<" ", "h", "a", "v", "e", " ">>

(***************************************************************************)
(* parse_statements                                                        *)
(***************************************************************************)
LogicalStatement(subj, rel, obj, raw, id) ==
    [subject |-> subj, relation |-> rel, object |-> obj, raw_text |-> raw, statement_id |-> id]

\* one branch of the if/elif chain: split on sep, one statement when there are two parts
SplitRule(line, sep, rel, idx) ==
    LET parts == Split(line, sep)
    IN IF Len(parts) = 2
       THEN <<LogicalStatement(Strip(parts[1]), rel, RStripDot(Strip(parts[2])), line, 2 * idx)>>
       ELSE <<>>

\* re.match(r'(.*?) and (.*?) have (.*)', line): <<subj1, subj2, obj>> or <<>>
ReMatchAndHave(line) ==
    LET ands == {i \in 1..Len(line) :
                    OccursAt(line, SepAnd, i) /\ Find(line, SepHave, i + Len(SepAnd)) # 0}
    IN IF ands = {} THEN <<>>
       ELSE LET i == CHOOSE x \in ands : \A y \in ands : x <= y
                j == Find(line, SepHave, i + Len(SepAnd))
            IN <<SubSeq(line, 1, i - 1),
                 SubSeq(line, i + Len(SepAnd), j - 1),
                 Tail0(line, j + Len(SepHave))>>

\* ConjunctiveRule that gives both statements the id of the line
ConjunctiveRuleSameId(line, idx) ==
    LET m == ReMatchAndHave(line)
    IN IF m = <<>> THEN <<>>
       ELSE <<LogicalStatement(Strip(m[1]), "has", RStripDot(Strip(m[3])), line, 2 * idx),
              LogicalStatement(Strip(m[2]), "has", RStripDot(Strip(m[3])), line, 2 * idx)>>

\* the conjunctive branch "X and Y have Z"
ConjunctiveRule(line, idx) ==
    LET m == ReMatchAndHave(line)
    IN IF m = <<>> THEN <<>>
       ELSE <<LogicalStatement(Strip(m[1]), "has", RStripDot(Strip(m[3])), line, 2 * idx),
              LogicalStatement(Strip(m[2]), "has", RStripDot(Strip(m[3])), line, 2 * idx + 1)>>

\* ParseLine that tests ' is ' before ' is not '
ParseLineIsFirst(rawline, idx) ==
    LET line == Strip(rawline)
    IN IF line = <<>> \/ StartsWith(line, <<"#">>) THEN <<>>
       ELSE IF Contains(line, SepIs)    THEN SplitRule(line, SepIs, "is", idx)
       ELSE IF Contains(line, SepIsNot) THEN SplitRule(line, SepIsNot, "is_not", idx)
       ELSE IF Contains(line, SepHas)   THEN SplitRule(line, SepHas, "has", idx)
       ELSE IF Contains(line, SepLacks) THEN SplitRule(line, SepLacks, "lacks", idx)
       ELSE IF Contains(line, SepAnd) /\ Contains(line, SepHave) THEN ConjunctiveRule(line, idx)
       ELSE <<>>

\* the body of the for loop for one line; idx is the 0-based line index
ParseLine(rawline, idx) ==
    LET line == Strip(rawline)
    IN IF line = <<>> \/ StartsWith(line, <<"#">>) THEN <<>>
       ELSE IF Contains(line, SepIsNot) THEN SplitRule(line, SepIsNot, "is_not", idx)
       ELSE IF Contains(line, SepIs)    THEN SplitRule(line, SepIs, "is", idx)
       ELSE IF Contains(line, SepHas)   THEN SplitRule(line, SepHas, "has", idx)
       ELSE IF Contains(line, SepLacks) THEN SplitRule(line, SepLacks, "lacks", idx)
       ELSE IF Contains(line, SepAnd) /\ Contains(line, SepHave) THEN ConjunctiveRule(line, idx)
       ELSE <<>>

RECURSIVE ParseLines(_, _)
ParseLines(lines, idx) ==
    IF lines = <<>> THEN <<>>
    ELSE ParseLine(Head(lines), idx) \o ParseLines(Tail(lines), idx + 1)

parse_statements(text) == ParseLines(Split(Strip(text), <<"\n">>), 0)

(***************************************************************************)
(* Python dict and set                                                     *)
(***************************************************************************)
RECURSIVE ConcatAll(_)
ConcatAll(ss) == IF ss = <<>> THEN <<>> ELSE Head(ss) \o ConcatAll(Tail(ss))

\* k in d
DictHas(d, k) == \E i \in 1..Len(d) : d[i][1] = k

\* d[k]
DictGet(d, k) == d[CHOOSE i \in 1..Len(d) : d[i][1] = k][2]

\* d[k] = v: a new key goes last, an existing key keeps its place
DictSet(d, k, v) ==
    IF DictHas(d, k)
    THEN [i \in 1..Len(d) |-> IF d[i][1] = k THEN <<k, v>> ELSE d[i]]
    ELSE Append(d, <<k, v>>)

\* list(d.keys())
DictKeys(d) == [i \in 1..Len(d) |-> d[i][1]]

\* iteration order of a set of str: fixed by the elements' hashes, which the
\* process's hash seed decides; the same set is always walked the same way
RECURSIVE SetOrder(_, _)
SetOrder(S, seed) ==
    IF S = {} THEN <<>>
    ELSE LET x == CHOOSE y \in S : TRUE
         IN IF seed = 0 THEN <<x>> \o SetOrder(S \ {x}, seed)
            ELSE SetOrder(S \ {x}, seed) \o <<x>>

(***************************************************************************)
(* LogicalConsistencyScorer.build_entity_graph                             *)
(***************************************************************************)
NotPrefix == <<"n", "o", "t", "_">>

\* LogicalEntity(name=..., properties=set(), relations={})
LogicalEntity(n) == [name |-> n, properties |-> {}, relations |-> <<>>]

\* AddRelation that assigns the one-element set instead of adding to the set
AddRelationReplacing(ents, subj, rel, obj) ==
    LET e == DictGet(ents, subj)
    IN DictSet(ents, subj, [e EXCEPT !.relations = DictSet(e.relations, rel, {obj})])

\* entities[subj].relations[rel].add(obj), creating the set on first use
AddRelation(ents, subj, rel, obj) ==
    LET e == DictGet(ents, subj)
        old == IF DictHas(e.relations, rel) THEN DictGet(e.relations, rel) ELSE {}
    IN DictSet(ents, subj, [e EXCEPT !.relations = DictSet(e.relations, rel, old \cup {obj})])

\* entities[subj].properties.add(p)
AddProperty(ents, subj, p) ==
    LET e == DictGet(ents, subj)
    IN DictSet(ents, subj, [e EXCEPT !.properties = @ \cup {p}])

\* GraphStep that makes an entity of the object whatever the relation
GraphStepAllObjects(ents, stmt) ==
    LET e1 == IF DictHas(ents, stmt.subject) THEN ents
              ELSE DictSet(ents, stmt.subject, LogicalEntity(stmt.subject))
        e2 == IF ~DictHas(e1, stmt.object)
              THEN DictSet(e1, stmt.object, LogicalEntity(stmt.object))
              ELSE e1
    IN IF stmt.relation \in {"is", "is_not"} THEN AddRelation(e2, stmt.subject, stmt.relation, stmt.object)
       ELSE IF stmt.relation = "has" THEN AddProperty(e2, stmt.subject, stmt.object)
       ELSE IF stmt.relation = "lacks" THEN AddProperty(e2, stmt.subject, NotPrefix \o stmt.object)
       ELSE e2

\* the loop body for one statement
GraphStep(ents, stmt) ==
    LET e1 == IF DictHas(ents, stmt.subject) THEN ents
              ELSE DictSet(ents, stmt.subject, LogicalEntity(stmt.subject))
        e2 == IF stmt.relation \in {"is", "is_not"} /\ ~DictHas(e1, stmt.object)
              THEN DictSet(e1, stmt.object, LogicalEntity(stmt.object))
              ELSE e1
    IN IF stmt.relation \in {"is", "is_not"} THEN AddRelation(e2, stmt.subject, stmt.relation, stmt.object)
       ELSE IF stmt.relation = "has" THEN AddProperty(e2, stmt.subject, stmt.object)
       ELSE IF stmt.relation = "lacks" THEN AddProperty(e2, stmt.subject, NotPrefix \o stmt.object)
       ELSE e2

\* entities = {} at the top of build_entity_graph
EmptyGraph == <<>>

RECURSIVE GraphFold(_, _)
GraphFold(ents, stmts) ==
    IF stmts = <<>> THEN ents ELSE GraphFold(GraphStep(ents, Head(stmts)), Tail(stmts))

build_entity_graph(stmts) == GraphFold(EmptyGraph, stmts)

(***************************************************************************)
(* LogicalConsistencyScorer.detect_contradictions                          *)
(***************************************************************************)
\* entity.relations[rel], or the empty set when the key is absent
Rel(entity, rel) == IF DictHas(entity.relations, rel) THEN DictGet(entity.relations, rel) ELSE {}

\* DirectPairs without the test that the target is also under "is_not"
DirectPairsAnyTarget(n, entity, seed) ==
    IF DictHas(entity.relations, "is") /\ DictHas(entity.relations, "is_not")
    THEN LET ts == SetOrder(DictGet(entity.relations, "is"), seed)
         IN [i \in 1..Len(ts) |-> <<n \o SepIs \o ts[i], n \o SepIsNot \o ts[i]>>]
    ELSE <<>>

\* "is"/"is_not" pairs of one entity
DirectPairs(n, entity, seed) ==
    IF DictHas(entity.relations, "is") /\ DictHas(entity.relations, "is_not")
    THEN LET ts == SetOrder(DictGet(entity.relations, "is"), seed)
         IN ConcatAll([i \in 1..Len(ts) |->
                IF ts[i] \in DictGet(entity.relations, "is_not")
                THEN << <<n \o SepIs \o ts[i], n \o SepIsNot \o ts[i]>> >>
                ELSE <<>>])
    ELSE <<>>

\* property pairs (X and not_X) of one entity
PropertyPairs(n, entity, seed) ==
    LET ps == SetOrder(entity.properties, seed)
    IN ConcatAll([i \in 1..Len(ps) |->
           IF StartsWith(ps[i], NotPrefix) /\ Tail0(ps[i], Len(NotPrefix) + 1) \in entity.properties
           THEN LET positive_prop == Tail0(ps[i], Len(NotPrefix) + 1)
                IN << <<n \o SepHas \o positive_prop, n \o SepLacks \o positive_prop>> >>
           ELSE <<>>])

\* TransitivePairs without the test that the far end is under "is_not"
TransitivePairsUnchecked(ents, n, entity, seed) ==
    IF DictHas(entity.relations, "is")
    THEN LET ts == SetOrder(DictGet(entity.relations, "is"), seed)
         IN ConcatAll([i \in 1..Len(ts) |->
                IF DictHas(ents, ts[i]) /\ DictHas(DictGet(ents, ts[i]).relations, "is")
                THEN LET us == SetOrder(DictGet(DictGet(ents, ts[i]).relations, "is"), seed)
                     IN ConcatAll([j \in 1..Len(us) |->
                            IF DictHas(entity.relations, "is_not")
                            THEN << <<n \o SepIs \o ts[i] \o SepAnd \o ts[i] \o SepIs \o us[j],
                                      n \o SepIsNot \o us[j]>> >>
                            ELSE <<>>])
                ELSE <<>>])
    ELSE <<>>

\* transitivity violations of one entity: A is B, B is C, A is_not C
TransitivePairs(ents, n, entity, seed) ==
    IF DictHas(entity.relations, "is")
    THEN LET ts == SetOrder(DictGet(entity.relations, "is"), seed)
         IN ConcatAll([i \in 1..Len(ts) |->
                IF DictHas(ents, ts[i]) /\ DictHas(DictGet(ents, ts[i]).relations, "is")
                THEN LET us == SetOrder(DictGet(DictGet(ents, ts[i]).relations, "is"), seed)
                     IN ConcatAll([j \in 1..Len(us) |->
                            IF DictHas(entity.relations, "is_not")
                               /\ us[j] \in DictGet(entity.relations, "is_not")
                            THEN << <<n \o SepIs \o ts[i] \o SepAnd \o ts[i] \o SepIs \o us[j],
                                      n \o SepIsNot \o us[j]>> >>
                            ELSE <<>>])
                ELSE <<>>])
    ELSE <<>>

detect_contradictions(ents, seed) ==
    ConcatAll([i \in 1..Len(ents) |->
        DirectPairs(ents[i][1], ents[i][2], seed) \o PropertyPairs(ents[i][1], ents[i][2], seed)])
    \o ConcatAll([i \in 1..Len(ents) |-> TransitivePairs(ents, ents[i][1], ents[i][2], seed)])

(***************************************************************************)
(* Python sorted() of str, floats                                          *)
(***************************************************************************)
\* the characters of the modelled texts, in code point order
CodeOrder ==
    <<"\t", "\n", "\r", " ", "!", "#", ".", "A", "I", "N", "T", "_",
      "a", "b", "c", "d", "e", "f", "g", "h", "i", "j", "k", "l", "m",
      "n", "o", "p", "q", "r", "s", "t", "u", "v", "w", "x", "y", "z">>

CodePoint(c) == CHOOSE i \in 1..Len(CodeOrder) : CodeOrder[i] = c

\* s < t for two str
RECURSIVE StrLess(_, _)
StrLess(s, t) ==
    IF t = <<>> THEN FALSE
    ELSE IF s = <<>> THEN TRUE
    ELSE IF Head(s) = Head(t) THEN StrLess(Tail(s), Tail(t))
    ELSE CodePoint(Head(s)) < CodePoint(Head(t))

\* sorted(list(S)) for a set of str
RECURSIVE Sorted(_)
Sorted(S) ==
    IF S = {} THEN <<>>
    ELSE LET x == CHOOSE y \in S : \A z \in S \ {y} : StrLess(y, z)
         IN <<x>> \o Sorted(S \ {x})

\* list.index(x), 0-based
IndexOf(list, x) == (CHOOSE i \in 1..Len(list) : list[i] = x /\ \A j \in 1..(i - 1) : list[j] # x) - 1

InList(list, x) == \E i \in 1..Len(list) : list[i] = x

\* float('inf')
Inf == -1

\* FAdd that leaves the second summand out
FAddFirstOnly(a, b) == a

\* a + b on floats
FAdd(a, b) == IF a = Inf \/ b = Inf THEN Inf ELSE a + b

\* a < b on floats
FLess(a, b) == IF a = Inf THEN FALSE ELSE IF b = Inf THEN TRUE ELSE a < b

\* min(a, b) on floats: b when b < a, else a
FMin(a, b) == IF FLess(b, a) THEN b ELSE a

\* the float 1.0 and the float 0.5, in hundredths
One == 100

Half == 50

(***************************************************************************)
(* LogicalConsistencyScorer.encode_as_vectors                              *)
(***************************************************************************)
RECURSIVE UnionAll(_)
UnionAll(ss) == IF ss = <<>> THEN {} ELSE Head(ss) \cup UnionAll(Tail(ss))

\* v[i, 0] = x on a vector kept as a sequence, i 0-based
SetSlot(v, i, x) == [v EXCEPT ![i + 1] = x]

\* the relation kinds as the str used for sorting and for dict keys
RelationOrder == <<"is", "is_not">>

\* sorted(list(all_relations)): "is" sorts before "is_not"
SortedRelations(S) == SelectSeq(RelationOrder, LAMBDA r : r \in S)

\* one statement's vector
EncodeStatement(stmt, entity_names, property_list, relation_list) ==
    LET n_entities == Len(entity_names)
        n_properties == Len(property_list)
        vector_dim == n_entities + n_properties + Len(relation_list)
        v0 == [i \in 1..vector_dim |-> 0]
        v1 == IF InList(entity_names, stmt.subject)
              THEN SetSlot(v0, IndexOf(entity_names, stmt.subject), One) ELSE v0
        v2 == IF stmt.relation \in {"is", "is_not"} /\ InList(relation_list, stmt.relation)
              THEN SetSlot(v1, n_entities + n_properties + IndexOf(relation_list, stmt.relation), One)
              ELSE v1
        v3 == IF stmt.relation \in {"is", "is_not"} /\ InList(entity_names, stmt.object)
              THEN SetSlot(v2, IndexOf(entity_names, stmt.object), Half) ELSE v2
        neg_prop == NotPrefix \o stmt.object
    IN IF stmt.relation = "has" /\ InList(property_list, stmt.object)
       THEN SetSlot(v3, n_entities + IndexOf(property_list, stmt.object), One)
       ELSE IF stmt.relation = "lacks" /\ InList(property_list, neg_prop)
       THEN SetSlot(v3, n_entities + IndexOf(property_list, neg_prop), One)
       ELSE v3

\* encode_as_vectors that returns nothing when no property label is known
encode_as_vectorsNoProperties(stmts, ents) ==
    LET entity_names == DictKeys(ents)
        all_properties == UnionAll([i \in 1..Len(ents) |-> ents[i][2].properties])
        all_relations == UnionAll([i \in 1..Len(ents) |->
                             {ents[i][2].relations[k][1] : k \in 1..Len(ents[i][2].relations)}])
        property_list == Sorted(all_properties)
        relation_list == SortedRelations(all_relations)
    IN IF Len(property_list) = 0 THEN <<<<>>, <<>>>>
       ELSE <<[i \in 1..Len(stmts) |->
                  EncodeStatement(stmts[i], entity_names, property_list, relation_list)],
              [i \in 1..Len(stmts) |-> One]>>

\* returns <<V_samples, targets>>
encode_as_vectors(stmts, ents) ==
    LET entity_names == DictKeys(ents)
        all_properties == UnionAll([i \in 1..Len(ents) |-> ents[i][2].properties])
        all_relations == UnionAll([i \in 1..Len(ents) |->
                             {ents[i][2].relations[k][1] : k \in 1..Len(ents[i][2].relations)}])
        property_list == Sorted(all_properties)
        relation_list == SortedRelations(all_relations)
        vector_dim == Len(entity_names) + Len(property_list) + Len(relation_list)
    IN IF vector_dim = 0 THEN <<<<>>, <<>>>>
       ELSE <<[i \in 1..Len(stmts) |->
                  EncodeStatement(stmts[i], entity_names, property_list, relation_list)],
              [i \in 1..Len(stmts) |-> One]>>

(***************************************************************************)
(* LogicalConsistencyScorer.compute_consistency_score                      *)
(***************************************************************************)
\* relation.replace('_', ' ')
RelText(rel) ==
    CASE rel = "is" -> <<"i", "s">>
      [] rel = "is_not" -> <<"i", "s", " ", "n", "o", "t">>
      [] rel = "has" -> <<"h", "a", "s">>
      [] rel = "lacks" -> <<"l", "a", "c", "k", "s">>

\* f"{stmt.subject} {stmt.relation.replace('_', ' ')} {stmt.object}"
StatementText(stmt) == stmt.subject \o <<" ">> \o RelText(stmt.relation) \o <<" ">> \o stmt.object

\* the 0-based indices of the statements taken to be contradictory
ContradictionIndices(contradictions, stmts) ==
    {i \in 0..(Len(stmts) - 1) :
        \E k \in 1..Len(contradictions) :
            \/ Contains(contradictions[k][1], StatementText(stmts[i + 1]))
            \/ Contains(contradictions[k][2], StatementText(stmts[i + 1]))}

\* statement_groups: relation -> (v_list, t_list), in first-seen order of the relations
RECURSIVE StatementGroups(_, _, _, _, _)
StatementGroups(groups, stmts, V_samples, targets, i) ==
    IF i > Len(stmts) THEN groups
    ELSE LET key == stmts[i].relation
             old == IF DictHas(groups, key) THEN DictGet(groups, key) ELSE <<<<>>, <<>>>>
         IN StatementGroups(
                DictSet(groups, key, <<Append(old[1], V_samples[i]), Append(old[2], targets[i])>>),
                stmts, V_samples, targets, i + 1)

\* problem_definition['patches']
Patches(groups) ==
    SelectSeq(
        [g \in 1..Len(groups) |->
            <<groups[g][1],
              [data |-> groups[g][2],
               config |-> [n_characters |-> Min(8, Len(groups[g][2][1])),
                           d_model |-> 1,
                           n_positions |-> IF groups[g][2][1] = <<>> THEN 0
                                           ELSE Len(groups[g][2][1][1])]]>>],
        LAMBDA p : p[2].data[1] # <<>>)

Gluing(patches, p1, p2) ==
    [patch_1 |-> p1, patch_2 |-> p2,
     constraint_data_1 |-> DictGet(patches, p1).data[1][1],
     constraint_data_2 |-> DictGet(patches, p2).data[1][1]]

\* the gluing between the "is" and the "is_not" patch
IsIsNotGluing(patches) ==
    IF DictHas(patches, "is") /\ DictHas(patches, "is_not")
       /\ DictGet(patches, "is").data[1] # <<>> /\ DictGet(patches, "is_not").data[1] # <<>>
    THEN <<Gluing(patches, "is", "is_not")>>
    ELSE <<>>

\* OtherGluings that does not skip the "is"/"is_not" pair
OtherGluingsNoSkip(patches) ==
    LET patch_names == DictKeys(patches)
        n == Len(patch_names)
    IN IF n > 1
       THEN ConcatAll([i \in 1..(n - 1) |->
                ConcatAll([d \in 1..(n - i) |->
                    LET j == i + d
                    IN IF DictGet(patches, patch_names[i]).data[1] # <<>>
                          /\ DictGet(patches, patch_names[j]).data[1] # <<>>
                       THEN <<Gluing(patches, patch_names[i], patch_names[j])>>
                       ELSE <<>>])])
       ELSE <<>>

\* the gluings between the other pairs of patches
OtherGluings(patches) ==
    LET patch_names == DictKeys(patches)
        n == Len(patch_names)
    IN IF n > 1
       THEN ConcatAll([i \in 1..(n - 1) |->
                ConcatAll([d \in 1..(n - i) |->
                    LET j == i + d
                    IN IF \/ (patch_names[i] = "is" /\ patch_names[j] = "is_not")
                          \/ (patch_names[i] = "is_not" /\ patch_names[j] = "is")
                       THEN <<>>
                       ELSE IF DictGet(patches, patch_names[i]).data[1] # <<>>
                               /\ DictGet(patches, patch_names[j]).data[1] # <<>>
                       THEN <<Gluing(patches, patch_names[i], patch_names[j])>>
                       ELSE <<>>])])
       ELSE <<>>

\* the problem definition handed to the solver
ProblemDefinition(stmts, V_samples, targets, contradictions) ==
    LET contradiction_indices == ContradictionIndices(contradictions, stmts)
        ts == [i \in 1..Len(stmts) |-> IF (i - 1) \in contradiction_indices THEN 0 ELSE targets[i]]
        patches == Patches(StatementGroups(<<>>, stmts, V_samples, ts, 1))
    IN [patches |-> patches, gluings |-> IsIsNotGluing(patches) \o OtherGluings(patches)]

\* _generate_analysis: the sentence chosen, with the numbers it quotes
generate_analysis(contradictions, residual, n_statements) ==
    LET k == Len(contradictions)
    IN IF k > 0
       THEN IF FLess(residual, 10) THEN <<"Minor logical tensions detected.", k, n_statements>>
            ELSE IF FLess(residual, 50) THEN <<"Moderate logical consistency issues.", k>>
            ELSE IF FLess(residual, 100) THEN <<"Significant logical inconsistency.", k>>
            ELSE <<"Low logical consistency.", k>>
       ELSE IF residual = 0 THEN <<"Perfect logical consistency!", n_statements>>
            ELSE IF FLess(residual, 10) THEN <<"High logical consistency.", n_statements>>
            ELSE IF FLess(residual, 50) THEN <<"Moderate logical consistency.", n_statements>>
            ELSE <<"Logical tensions detected despite no direct contradictions.">>

\* BaseObstruction with a weight of 0.1 per contradiction
BaseObstructionLight(contradictions) == Len(contradictions) * 10

\* len(contradictions) * 0.5
BaseObstruction(contradictions) == Len(contradictions) * Half

\* ConsistencyScore without the clamps: 100 * (1 - total_residual)
ConsistencyScoreUnclamped(total_residual) == 100 - total_residual

\* max(0, 100 * (1 - min(1, total_residual))), in percent points
ConsistencyScore(total_residual) == Max(0, 100 - FMin(One, total_residual))

\* NoStatementsResult with the score of an empty text set to 0
NoStatementsResultZero ==
    [score |-> 0, contradictions |-> <<>>,
     analysis |-> <<"No logical statements found.">>, residual |-> 0]

\* the dict returned when no statement was parsed
NoStatementsResult ==
    [score |-> 100, contradictions |-> <<>>,
     analysis |-> <<"No logical statements found.">>, residual |-> 0]

\* the dict returned when nothing could be encoded
UnableToEncodeResult(contradictions) ==
    [score |-> IF contradictions = <<>> THEN 100 ELSE 0, contradictions |-> contradictions,
     analysis |-> <<"Unable to encode statements for analysis.">>,
     residual |-> BaseObstruction(contradictions)]

\* SolvedResult with the contradictions appended to those of the call before
SolvedResultAccumulating(contradictions, residual, n_statements, n_entities, problem) ==
    LET all == result.contradictions \o contradictions
        total_residual == FAdd(residual, Len(all) * Half)
    IN [score |-> Max(0, 100 - FMin(One, total_residual)), contradictions |-> all,
        analysis |-> generate_analysis(all, total_residual, n_statements),
        residual |-> total_residual, n_statements |-> n_statements, n_entities |-> n_entities,
        n_patches |-> Len(problem.patches), n_gluings |-> Len(problem.gluings)]

\* the dict returned after a successful solve with the solver's residual
SolvedResult(contradictions, residual, n_statements, n_entities, problem) ==
    LET total_residual == FAdd(residual, BaseObstruction(contradictions))
    IN [score |-> ConsistencyScore(total_residual), contradictions |-> contradictions,
        analysis |-> generate_analysis(contradictions, total_residual, n_statements),
        residual |-> total_residual, n_statements |-> n_statements, n_entities |-> n_entities,
        n_patches |-> Len(problem.patches), n_gluings |-> Len(problem.gluings)]

\* SolverErrorResult that returns the midpoint whatever was detected
SolverErrorResultMidpoint(contradictions) ==
    [score |-> 50, contradictions |-> contradictions,
     analysis |-> <<"Error in sheaf analysis">>, residual |-> 0]

\* the dict returned from the except branch
SolverErrorResult(contradictions) ==
    [score |-> IF contradictions # <<>> THEN 0 ELSE 50, contradictions |-> contradictions,
     analysis |-> <<"Error in sheaf analysis">>,
     residual |-> IF contradictions # <<>> THEN Inf ELSE 0]

\* no problem was handed to the solver
NoProblem == [patches |-> <<>>, gluings |-> <<>>]

\* Everything compute_consistency_score works out before it calls the solver
GraphRun(text, seed) ==
    LET stmts == parse_statements(text)
        ents == build_entity_graph(stmts)
        contradictions == detect_contradictions(ents, seed)
        enc == encode_as_vectors(stmts, ents)
    IN [text |-> text, statements |-> stmts, entities |-> ents,
        contradictions |-> contradictions, V_samples |-> enc[1],
        problem |-> IF stmts = <<>> \/ enc[1] = <<>> THEN NoProblem
                    ELSE ProblemDefinition(stmts, enc[1], enc[2], contradictions)]

\* GraphReturn that calls sheaf_learner.fit a second time after it raised
GraphReturnRetry(run, outcome, ents) ==
    IF run.statements = <<>>
    THEN [statements |-> run.statements, entities |-> ents, result |-> NoStatementsResult,
          problem |-> NoProblem, solver_calls |-> 0]
    ELSE IF run.V_samples = <<>>
    THEN [statements |-> run.statements, entities |-> run.entities,
          result |-> UnableToEncodeResult(run.contradictions),
          problem |-> NoProblem, solver_calls |-> 0]
    ELSE [statements |-> run.statements, entities |-> run.entities,
          result |-> IF outcome.ok
                     THEN SolvedResult(run.contradictions, outcome.residual,
                                       Len(run.statements), Len(run.entities), run.problem)
                     ELSE SolverErrorResult(run.contradictions),
          problem |-> run.problem, solver_calls |-> IF outcome.ok THEN 1 ELSE 2]

\* The returns of compute_consistency_score on a scorer whose entities field
\* holds ents: the new fields, the returned dict, the problem handed to the
\* solver and the number of sheaf_learner.fit calls.  outcome is what fit does
\* if it is called.
GraphReturn(run, outcome, ents) ==
    IF run.statements = <<>>
    THEN [statements |-> run.statements, entities |-> ents, result |-> NoStatementsResult,
          problem |-> NoProblem, solver_calls |-> 0]
    ELSE IF run.V_samples = <<>>
    THEN [statements |-> run.statements, entities |-> run.entities,
          result |-> UnableToEncodeResult(run.contradictions),
          problem |-> NoProblem, solver_calls |-> 0]
    ELSE [statements |-> run.statements, entities |-> run.entities,
          result |-> IF outcome.ok
                     THEN SolvedResult(run.contradictions, outcome.residual,
                                       Len(run.statements), Len(run.entities), run.problem)
                     ELSE SolverErrorResult(run.contradictions),
          problem |-> run.problem, solver_calls |-> 1]

\* the whole call
compute_consistency_score(text, outcome, ents, seed) ==
    GraphReturn(GraphRun(text, seed), outcome, ents)

(***************************************************************************)
(* LogicalConsistencyScorerV2                                              *)
(***************************************************************************)
\* self.relation_types
relation_types == <<<<"is", 0>>, <<"is_not", 1>>, <<"has", 2>>, <<"lacks", 3>>>>

\* the first loop of build_knowledge_structure: <<entities, properties,
\* entity_counter, property_counter>> after registering the statements' names
RECURSIVE Register(_, _, _, _, _)
Register(ents, props, entity_counter, property_counter, stmts) ==
    IF stmts = <<>> THEN <<ents, props>>
    ELSE LET stmt == Head(stmts)
             newSubj == ~DictHas(ents, stmt.subject)
             e1 == IF newSubj THEN DictSet(ents, stmt.subject, entity_counter) ELSE ents
             c1 == IF newSubj THEN entity_counter + 1 ELSE entity_counter
             newObj == stmt.relation \in {"is", "is_not"} /\ ~DictHas(e1, stmt.object)
             e2 == IF newObj THEN DictSet(e1, stmt.object, c1) ELSE e1
             c2 == IF newObj THEN c1 + 1 ELSE c1
             newProp == stmt.relation \in {"has", "lacks"} /\ ~DictHas(props, stmt.object)
             p1 == IF newProp THEN DictSet(props, stmt.object, property_counter) ELSE props
             pc1 == IF newProp THEN property_counter + 1 ELSE property_counter
         IN Register(e2, p1, c2, pc1, Tail(stmts))

LogicalTriple(e, r, t, tv, src) ==
    [entity_id |-> e, relation_id |-> r, target_id |-> t, truth_value |-> tv, source_stmt |-> src]

\* the second loop of build_knowledge_structure
Triples(ents, props, stmts) ==
    ConcatAll([k \in 1..Len(stmts) |->
        LET stmt == stmts[k]
            entity_id == DictGet(ents, stmt.subject)
            relation_id == DictGet(relation_types, stmt.relation)
        IN IF stmt.relation \in {"is", "is_not"}
           THEN <<LogicalTriple(entity_id, relation_id, DictGet(ents, stmt.object),
                                IF stmt.relation = "is" THEN 1 ELSE -1, k - 1)>>
           ELSE IF ~DictHas(props, stmt.object) THEN <<>>
           ELSE <<LogicalTriple(entity_id, relation_id, DictGet(props, stmt.object),
                                IF stmt.relation = "has" THEN 1 ELSE -1, k - 1)>>])

\* build_knowledge_structure on a scorer whose maps are ents and props
build_knowledge_structure(ents, props, stmts) ==
    LET reg == Register(ents, props, 0, 0, stmts)
    IN [entities |-> reg[1], properties |-> reg[2], triples |-> Triples(reg[1], reg[2], stmts)]

\* pairs <<i, j>> of 0-based triple indices, i < j
detect_contradictions_from_triples(triples) ==
    LET n == Len(triples)
    IN ConcatAll([i \in 1..n |->
           ConcatAll([j \in 1..n |->
               IF i >= j THEN <<>>
               ELSE LET t1 == triples[i]
                        t2 == triples[j]
                    IN IF /\ t1.entity_id = t2.entity_id
                          /\ t1.target_id = t2.target_id
                          /\ t1.truth_value * t2.truth_value < 0
                          /\ \/ (t1.relation_id = 0 /\ t2.relation_id = 1)
                             \/ (t1.relation_id = 1 /\ t2.relation_id = 0)
                             \/ (t1.relation_id = 2 /\ t2.relation_id = 3)
                             \/ (t1.relation_id = 3 /\ t2.relation_id = 2)
                       THEN << <<i - 1, j - 1>> >>
                       ELSE <<>>])])

\* the name of a relation id
RelName(relation_id) ==
    relation_types[CHOOSE k \in 1..Len(relation_types) : relation_types[k][2] = relation_id][1]

\* patches_data: relation name -> list of triples, in first-seen order
RECURSIVE PatchesData(_, _)
PatchesData(groups, triples) ==
    IF triples = <<>> THEN groups
    ELSE LET rel_name == RelName(Head(triples).relation_id)
             old == IF DictHas(groups, rel_name) THEN DictGet(groups, rel_name) ELSE <<>>
         IN PatchesData(DictSet(groups, rel_name, Append(old, Head(triples))), Tail(triples))

\* the position-dependent vector of one triple
TripleVector(triple, vector_dim) ==
    LET v0 == [i \in 1..vector_dim |-> 0]
        v1 == SetSlot(v0, triple.entity_id % vector_dim, One)
    IN IF triple.relation_id < 2
       THEN SetSlot(v1, (triple.target_id + 1) % vector_dim, Half * triple.truth_value)
       ELSE SetSlot(v1, (triple.target_id + 2) % vector_dim, Half * triple.truth_value)

\* is_contradicted of one triple of a patch
IsContradicted(triple, patch_triples, triples, contradictions) ==
    \E k \in 1..Len(contradictions) :
        /\ contradictions[k][1] < Len(triples) /\ contradictions[k][2] < Len(triples)
        /\ \/ contradictions[k][1] = IndexOf(patch_triples, triple)
           \/ contradictions[k][2] = IndexOf(patch_triples, triple)

\* create_wreath_sheaf_problem on a scorer whose maps are ents and props
create_wreath_sheaf_problem(ents, props, triples, contradictions) ==
    LET patches_data == PatchesData(<<>>, triples)
        vector_dim == Max(Max(Len(ents), Len(props)), 4)
        patches ==
            [g \in 1..Len(patches_data) |->
                LET patch_triples == patches_data[g][2]
                    V_samples == [k \in 1..Len(patch_triples) |->
                                     TripleVector(patch_triples[k], vector_dim)]
                    targets == [k \in 1..Len(patch_triples) |->
                                   IF IsContradicted(patch_triples[k], patch_triples, triples,
                                                     contradictions)
                                   THEN 0 ELSE One]
                IN <<patches_data[g][1],
                     [data |-> <<V_samples, targets>>,
                      config |-> [n_characters |-> Min(8, Len(V_samples)), d_model |-> 1,
                                  n_positions |-> vector_dim]]>>]
        hasLacks == IF DictHas(patches, "has") /\ DictHas(patches, "lacks")
                    THEN <<Gluing(patches, "has", "lacks")>> ELSE <<>>
    IN [patches |-> patches, gluings |-> IsIsNotGluing(patches) \o hasLacks]

\* statement_contradictions: the triple pairs as pairs of statement texts
StatementContradictions(triple_contradictions, triples, stmts) ==
    ConcatAll([k \in 1..Len(triple_contradictions) |->
        LET i == triple_contradictions[k][1]
            j == triple_contradictions[k][2]
        IN IF i < Len(triples) /\ j < Len(triples)
              /\ triples[i + 1].source_stmt < Len(stmts) /\ triples[j + 1].source_stmt < Len(stmts)
           THEN << <<StatementText(stmts[triples[i + 1].source_stmt + 1]),
                     StatementText(stmts[triples[j + 1].source_stmt + 1])>> >>
           ELSE <<>>])

\* the analysis sentence of the V2 scorer
AnalysisV2(contradictions, total_residual, n_statements) ==
    LET k == Len(contradictions)
    IN IF k > 0
       THEN IF FLess(total_residual, 50) THEN <<"Minor contradictions found", k>>
            ELSE IF FLess(total_residual, 100) THEN <<"Moderate logical inconsistency", k>>
            ELSE <<"Significant logical issues", k>>
       ELSE IF total_residual = 0 THEN <<"Perfect logical consistency!", n_statements>>
            ELSE <<"Good logical consistency with minor tensions.">>

\* the dict returned from the except branch of the V2 scorer
SolverErrorResultV2(contradictions) ==
    [score |-> IF contradictions # <<>> THEN 0 ELSE 50, contradictions |-> contradictions,
     analysis |-> <<"Error in analysis">>,
     residual |-> IF contradictions # <<>> THEN Inf ELSE 0]

\* Everything the V2 call works out before it calls the solver, on a scorer
\* whose maps are ents and props
TripleRun(stmts, ents, props) ==
    LET ks == build_knowledge_structure(ents, props, stmts)
        triple_contradictions == detect_contradictions_from_triples(ks.triples)
    IN [statements |-> stmts, entities |-> ks.entities, properties |-> ks.properties,
        triples |-> ks.triples, triple_contradictions |-> triple_contradictions,
        contradictions |-> StatementContradictions(triple_contradictions, ks.triples, stmts),
        problem |-> create_wreath_sheaf_problem(ks.entities, ks.properties, ks.triples,
                                                triple_contradictions)]

\* The returns of the V2 call on a scorer whose maps are ents and props
TripleReturn(run, outcome, ents, props) ==
    LET called == run.problem.patches # <<>>
        residual == IF called THEN outcome.residual ELSE 0
        total_residual == FAdd(residual, BaseObstruction(run.contradictions))
    IN IF run.statements = <<>>
       THEN [statements |-> run.statements, entities |-> ents, properties |-> props,
             result |-> NoStatementsResult, problem |-> NoProblem, solver_calls |-> 0,
             triples |-> <<>>, triple_contradictions |-> <<>>]
       ELSE [statements |-> run.statements, entities |-> run.entities,
             properties |-> run.properties,
             triples |-> run.triples, triple_contradictions |-> run.triple_contradictions,
             result |-> IF called /\ ~outcome.ok
                        THEN SolverErrorResultV2(run.contradictions)
                        ELSE [score |-> ConsistencyScore(total_residual),
                              contradictions |-> run.contradictions,
                              analysis |-> AnalysisV2(run.contradictions, total_residual,
                                                      Len(run.statements)),
                              residual |-> total_residual,
                              n_statements |-> Len(run.statements),
                              n_entities |-> Len(run.entities),
                              n_properties |-> Len(run.properties),
                              n_triples |-> Len(run.triples),
                              n_patches |-> Len(run.problem.patches),
                              n_gluings |-> Len(run.problem.gluings)],
             problem |-> IF called THEN run.problem ELSE NoProblem,
             solver_calls |-> IF called THEN 1 ELSE 0]

\* the whole V2 call
compute_consistency_score_v2(text, outcome, ents, props) ==
    TripleReturn(TripleRun(parse_statements(text), ents, props), outcome, ents, props)

(***************************************************************************)
(* The texts scored                                                        *)
(***************************************************************************)
\* the longest text enumerated, in lines
MaxLines == 3

NameA == <<"a">>

NameB == <<"b">>

NameC == <<"c">>

NameW == <<"w">>

\* the lines the enumerated texts are made of
Lines ==
    << NameA \o SepIs \o NameB,
       NameA \o SepIsNot \o NameB,
       NameB \o SepIs \o NameC,
       NameA \o SepIsNot \o NameC,
       NameC \o SepIs \o NameB,
       NameA \o SepHas \o NameW,
       NameA \o SepLacks \o NameW,
       NameA \o SepHas \o NotPrefix \o NameW >>

\* all sequences of at most n lines
RECURSIVE LineSeqs(_)
LineSeqs(n) ==
    IF n = 0 THEN {<<>>}
    ELSE LET shorter == LineSeqs(n - 1)
         IN shorter \cup {Append(ls, Lines[k]) : ls \in shorter, k \in 1..Len(Lines)}

EnumeratedTexts == {Join(ls, <<"\n">>) : ls \in LineSeqs(MaxLines)}

\* test_empty_input: the empty text
TextEmpty ==
    <<>>

\* only blank lines and a '#' comment line
TextBlankAndComment ==
    <<"\n", " ", " ", " ", "\n", "#", " ", "a", " ", "i", "s", " ", "b", "\n", "\n">>

\* test_no_logical_statements
TextProse ==
    <<"\n", " ", " ", " ", " ", " ", " ", " ", " ", "T", "h", "i", "s", " ", "i", "s", " ",
      "j", "u", "s", "t", " ", "r", "e", "g", "u", "l", "a", "r", " ", "t", "e", "x", "t", ".",
      "\n", " ", " ", " ", " ", " ", " ", " ", " ", "N", "o", " ", "l", "o", "g", "i", "c",
      "a", "l", " ", "s", "t", "a", "t", "e", "m", "e", "n", "t", "s", " ", "h", "e", "r", "e",
      "!", "\n", " ", " ", " ", " ", " ", " ", " ", " ">>

\* a line with none of the separators
TextNoSeparator ==
    <<"N", "o", " ", "l", "o", "g", "i", "c", "a", "l", " ", "s", "t", "a", "t", "e", "m", "e",
      "n", "t", "s", " ", "h", "e", "r", "e", "!">>

\* a line that splits into three parts
TextTwoSeparators ==
    <<"a", " ", "i", "s", " ", "b", " ", "i", "s", " ", "c">>

\* test_direct_contradiction
TextDirect ==
    <<"\n", " ", " ", " ", " ", " ", " ", " ", " ", "d", "o", "g", " ", "i", "s", " ", "a",
      "n", "i", "m", "a", "l", "\n", " ", " ", " ", " ", " ", " ", " ", " ", "d", "o", "g",
      " ", "i", "s", " ", "n", "o", "t", " ", "a", "n", "i", "m", "a", "l", "\n", " ", " ",
      " ", " ", " ", " ", " ", " ">>

\* test_property_contradiction
TextProperty ==
    <<"\n", " ", " ", " ", " ", " ", " ", " ", " ", "b", "i", "r", "d", " ", "h", "a", "s",
      " ", "w", "i", "n", "g", "s", "\n", " ", " ", " ", " ", " ", " ", " ", " ", "b", "i",
      "r", "d", " ", "l", "a", "c", "k", "s", " ", "w", "i", "n", "g", "s", "\n", " ", " ",
      " ", " ", " ", " ", " ", " ">>

\* test_transitive_violation
TextTransitive ==
    <<"\n", " ", " ", " ", " ", " ", " ", " ", " ", "d", "o", "g", " ", "i", "s", " ", "m",
      "a", "m", "m", "a", "l", "\n", " ", " ", " ", " ", " ", " ", " ", " ", "m", "a", "m",
      "m", "a", "l", " ", "i", "s", " ", "a", "n", "i", "m", "a", "l", "\n", " ", " ", " ",
      " ", " ", " ", " ", " ", "d", "o", "g", " ", "i", "s", " ", "n", "o", "t", " ", "a", "n",
      "i", "m", "a", "l", "\n", " ", " ", " ", " ", " ", " ", " ", " ">>

\* test_transitive_consistency
TextTransitiveConsistent ==
    <<"\n", " ", " ", " ", " ", " ", " ", " ", " ", "d", "o", "g", " ", "i", "s", " ", "m",
      "a", "m", "m", "a", "l", "\n", " ", " ", " ", " ", " ", " ", " ", " ", "m", "a", "m",
      "m", "a", "l", " ", "i", "s", " ", "a", "n", "i", "m", "a", "l", "\n", " ", " ", " ",
      " ", " ", " ", " ", " ", "d", "o", "g", " ", "i", "s", " ", "a", "n", "i", "m", "a", "l",
      "\n", " ", " ", " ", " ", " ", " ", " ", " ">>

\* a chain that needs two intermediate entities
TextTwoHops ==
    <<"a", " ", "i", "s", " ", "b", "\n", "b", " ", "i", "s", " ", "c", "\n", "c", " ", "i",
      "s", " ", "d", "\n", "a", " ", "i", "s", " ", "n", "o", "t", " ", "d">>

\* an entity that is and is not itself
TextSelf ==
    <<"a", " ", "i", "s", " ", "a", "\n", "a", " ", "i", "s", " ", "n", "o", "t", " ", "a">>

\* the conjunctive pattern and a trailing period
TextConjunctive ==
    <<"a", " ", "a", "n", "d", " ", "b", " ", "h", "a", "v", "e", " ", "w", "\n", "b", " ",
      "l", "a", "c", "k", "s", " ", "w", ".">>

\* test_contradictory_beliefs
TextBeliefs ==
    <<"\n", " ", " ", " ", " ", " ", " ", " ", " ", "t", "e", "c", "h", "n", "o", "l", "o", "g",
      "y", " ", "i", "s", " ", "b", "e", "n", "e", "f", "i", "c", "i", "a", "l", "\n", " ", " ",
      " ", " ", " ", " ", " ", " ", "t", "e", "c", "h", "n", "o", "l", "o", "g", "y", " ", "i",
      "s", " ", "h", "a", "r", "m", "f", "u", "l", "\n", " ", " ", " ", " ", " ", " ", " ", " ",
      "p", "r", "o", "g", "r", "e", "s", "s", " ", "i", "s", " ", "g", "o", "o", "d", "\n", " ",
      " ", " ", " ", " ", " ", " ", " ", "p", "r", "o", "g", "r", "e", "s", "s", " ", "i", "s",
      " ", "d", "a", "n", "g", "e", "r", "o", "u", "s", "\n", " ", " ", " ", " ", " ", " ", " ",
      " ", "A", "I", " ", "i", "s", " ", "t", "o", "o", "l", "\n", " ", " ", " ", " ", " ", " ",
      " ", " ", "A", "I", " ", "i", "s", " ", "t", "h", "r", "e", "a", "t", "\n", " ", " ", " ",
      " ", " ", " ", " ", " ">>

\* a statement whose text is a prefix of a contradictory statement's text
TextSubstring ==
    <<"c", "a", "t", " ", "i", "s", " ", "a", "\n", "c", "a", "t", " ", "i", "s", " ", "a", "n",
      "i", "m", "a", "l", "\n", "c", "a", "t", " ", "i", "s", " ", "n", "o", "t", " ", "a", "n",
      "i", "m", "a", "l">>

NamedTexts ==
    {TextEmpty, TextBlankAndComment, TextProse, TextNoSeparator, TextTwoSeparators, TextDirect,
     TextProperty, TextTransitive, TextTransitiveConsistent, TextTwoHops, TextSelf, TextConjunctive,
     TextBeliefs, TextSubstring}

\* the texts of the observed call
Texts == EnumeratedTexts \cup NamedTexts

\* the longest text enumerated for the parser, in lines
MaxParserLines == 2

\* the lines of the parser's texts: each rule alone, a separator twice, two
\* different separators, a period after whitespace, surrounding whitespace, a
\* comment, and the conjunctive pattern with and without a match
ParserLines ==
    <<
      <<"a", " ", "i", "s", " ", "b">>,
      <<"a", " ", "i", "s", " ", "n", "o", "t", " ", "b">>,
      <<"a", " ", "h", "a", "s", " ", "w">>,
      <<"a", " ", "l", "a", "c", "k", "s", " ", "w">>,
      <<"a", " ", "a", "n", "d", " ", "b", " ", "h", "a", "v", "e", " ", "w">>,
      <<"a", " ", "i", "s", " ", "b", " ", "i", "s", " ", "c">>,
      <<"a", " ", "i", "s", " ", "n", "o", "t", " ", "b", " ", "i", "s", " ", "n", "o", "t", " ", "c">>,
      <<"a", " ", "i", "s", " ", "n", "o", "t", " ", "b", " ", "i", "s", " ", "c">>,
      <<"a", " ", "i", "s", " ", "b", " ", ".">>,
      <<"\t", "a", " ", "h", "a", "s", " ", "w", ".", " ">>,
      <<"#", " ", "a", " ", "i", "s", " ", "b">>,
      <<"a", " ", "a", "n", "d", " ", "b", " ", "i", "s", " ", "c">>,
      <<"a", " ", "l", "a", "c", "k", "s", " ", "w", " ", "h", "a", "s", " ", "v">>,
      <<"c", " ", "h", "a", "v", "e", " ", "v", " ", "a", "n", "d", " ", "w">>,
      <<"a", " ", "a", "n", "d", " ", "b", " ", "a", "n", "d", " ", "c", " ", "h", "a", "v", "e", " ",
        "w", " ", ".">>
    >>

\* all sequences of at most n of the lines
RECURSIVE LineSeqsOf(_, _)
LineSeqsOf(lines, n) ==
    IF n = 0 THEN {<<>>}
    ELSE LET shorter == LineSeqsOf(lines, n - 1)
         IN shorter \cup {Append(ls, lines[k]) : ls \in shorter, k \in 1..Len(lines)}

\* a blank line and a comment line before a conjunctive line
TextSkippedLines ==
    <<"a", " ", "i", "s", " ", "b", "\n", "\n", "#", " ", "c", "\n", "a", " ", "a", "n", "d",
      " ", "b", " ", "h", "a", "v", "e", " ", "w", "\n", "b", " ", "l", "a", "c", "k", "s", " ",
      "w">>

\* the texts scored to observe the parser
ParserTexts ==
    {Join(ls, <<"\n">>) : ls \in LineSeqsOf(ParserLines, MaxParserLines)}
        \cup {TextSkippedLines, TextConjunctive, TextProse}

\* the texts got from text by exchanging two of its lines, by repeating one of
\* its lines at the end or by dropping a line that occurs twice: other texts
\* with the same set of statements
Rearrangements(text) ==
    LET ls == Split(text, <<"\n">>)
        n == Len(ls)
        exchanged == {[ls EXCEPT ![i] = ls[j], ![j] = ls[i]] : i \in 1..n, j \in 1..n}
        repeated == {Append(ls, ls[i]) : i \in 1..n}
        dropped == {SubSeq(ls, 1, i - 1) \o SubSeq(ls, i + 1, n) :
                       i \in {k \in 1..n : \E j \in 1..n : j # k /\ ls[j] = ls[k]}}
    IN ({Join(x, <<"\n">>) : x \in exchanged \cup repeated \cup dropped} \cap Texts) \ {text}

RearrangedTexts == [t \in Texts |-> Rearrangements(t)]

\* the texts scored before it, which leave their names in the scorer's fields
EarlierTexts ==
    {NameA \o SepIs \o NameB,
     NameB \o SepIsNot \o NameC \o <<"\n">> \o NameB \o SepLacks \o NameW}

\* the residuals sheaf_learner.fit may return: 0.0, 0.3, 1.2 and inf
Residuals == {0, 30, 120, Inf}

\* what sheaf_learner.fit does when called: return a residual, or raise
Outcomes == {[ok |-> TRUE, residual |-> r] : r \in Residuals} \cup {[ok |-> FALSE, residual |-> 0]}

\* what sheaf_learner.fit did in the calls before the observed one: returned
\* 0.0, or raised
EarlierOutcomes == {[ok |-> TRUE, residual |-> 0], [ok |-> FALSE, residual |-> 0]}

HashSeeds == {0, 1}

(***************************************************************************)
(* The state machine: one process, one scorer at a time                    *)
(***************************************************************************)
NoCall ==
    [made |-> FALSE, text |-> <<>>, outcome |-> [ok |-> TRUE, residual |-> 0],
     problem |-> NoProblem, solver_calls |-> 0, rescored |-> FALSE,
     was_fresh |-> FALSE, live |-> FALSE, triples |-> <<>>, triple_contradictions |-> <<>>]

\* GraphRun of every text, worked out once per text and hash seed
GraphRuns(texts) == [seed \in HashSeeds |-> [t \in texts |-> GraphRun(t, seed)]]

RunsOfEarlierTexts == GraphRuns(EarlierTexts)

RunsOfTexts == GraphRuns(Texts)

\* the run of a text scored before
RunOf(text, seed) ==
    IF text \in EarlierTexts THEN RunsOfEarlierTexts[seed][text] ELSE RunsOfTexts[seed][text]

\* parse_statements of every text, worked out once per text
Parsed(texts) == {[text |-> t, statements |-> parse_statements(t)] : t \in texts}

ParsedEarlierTexts == Parsed(EarlierTexts)

ParsedTexts == Parsed(Texts)

RunsOfParserTexts == GraphRuns(ParserTexts)

ParsedParserTexts == Parsed(ParserTexts)

InitScorer(v) ==
    /\ variant = v
    /\ hashSeed \in (IF v = "graph" THEN HashSeeds ELSE {0})  \* the V2 scorer walks no set
    /\ statements = <<>>
    /\ entities = <<>>
    /\ properties = <<>>
    /\ result = NoStatementsResult
    /\ call = NoCall
    /\ phase = "open"

Init == InitScorer("graph") \/ InitScorer("triple")

\* the instance has not been called since its construction
Fresh == ~call.live

\* the effect of a call that returns r
Returned(text, outcome, r, rescored) ==
    /\ statements' = r.statements
    /\ entities' = r.entities
    /\ properties' = IF variant = "graph" THEN properties ELSE r.properties
    /\ result' = r.result
    /\ call' = [made |-> TRUE, text |-> text, outcome |-> outcome, problem |-> r.problem,
                solver_calls |-> r.solver_calls, rescored |-> rescored,
                was_fresh |-> Fresh, live |-> TRUE,
                triples |-> IF variant = "graph" THEN <<>> ELSE r.triples,
                triple_contradictions |-> IF variant = "graph" THEN <<>>
                                          ELSE r.triple_contradictions]
    /\ UNCHANGED <<variant, hashSeed>>

\* LogicalConsistencyScorer.compute_consistency_score(text), for the texts of
\* runs and a solver that does one of outcomes
ScoreGraph(runs, outcomes) ==
    /\ variant = "graph"
    /\ \E text \in DOMAIN runs[hashSeed], outcome \in outcomes :
          \E r \in {GraphReturn(runs[hashSeed][text], outcome, entities)} :
              Returned(text, outcome, r, FALSE)

\* LogicalConsistencyScorerV2.compute_consistency_score(text), for the texts of
\* parsed and a solver that does one of outcomes
ScoreTriple(parsed, outcomes) ==
    /\ variant = "triple"
    /\ \E p \in parsed :
          \E run \in {TripleRun(p.statements, entities, properties)}, outcome \in outcomes :
              \E r \in {TripleReturn(run, outcome, entities, properties)} :
                  Returned(p.text, outcome, r, FALSE)

\* a call made before the observed one
ScoreEarlier ==
    /\ phase = "open"
    /\ \/ ScoreGraph(RunsOfEarlierTexts, EarlierOutcomes)
       \/ ScoreTriple(ParsedEarlierTexts, EarlierOutcomes)
    /\ phase' = "open"

\* the observed call
ScoreText ==
    /\ phase = "open"
    /\ ScoreGraph(RunsOfTexts, Outcomes) \/ ScoreTriple(ParsedTexts, Outcomes)
    /\ phase' = "closed"

\* The same text is scored again by the graph-indexed scorer, on the same
\* instance or, after NewScorer, on a second fresh one.  The solver is
\* deterministic: on the input the last call gave it, it does what it did then.
Rescore ==
    /\ variant = "graph"
    /\ call.made
    /\ call.live \/ call.was_fresh
    /\ \E run \in {RunOf(call.text, hashSeed)}, outcome \in Outcomes :
          \E r \in {GraphReturn(run, outcome, entities)} :
              /\ (call.solver_calls > 0 /\ r.solver_calls > 0 /\ r.problem = call.problem)
                    => outcome = call.outcome
              /\ Returned(call.text, outcome, r, TRUE)
    /\ UNCHANGED phase

\* LogicalConsistencyScorer(): a new instance replaces the one in use
NewScorer ==
    /\ variant = "graph"
    /\ call.live
    /\ statements' = <<>>
    /\ entities' = <<>>
    /\ properties' = <<>>
    /\ call' = [call EXCEPT !.live = FALSE]
    /\ UNCHANGED <<variant, hashSeed, result, phase>>

Next == ScoreEarlier \/ ScoreText

Spec == Init /\ [][Next]_vars

\* the graph-indexed scorer alone, with texts scored twice
NextRepeat == ScoreEarlier \/ ScoreText \/ Rescore \/ NewScorer

SpecRepeat == InitScorer("graph") /\ [][NextRepeat]_vars

\* a call of either scorer on one of the parser's texts
ScoreParserText ==
    /\ phase = "open"
    /\ ScoreGraph(RunsOfParserTexts, Outcomes) \/ ScoreTriple(ParsedParserTexts, Outcomes)
    /\ phase' = "closed"

\* either scorer, one call on a text that exercises parse_statements
SpecParse == Init /\ [][ScoreParserText]_vars

\* The graph-indexed scorer scores the observed text again with one more line
\* appended to it; the solver is free in what it does on the longer text.
ScoreExtended ==
    /\ variant = "graph"
    /\ phase = "closed"
    /\ \E k \in 1..Len(Lines) :
          \E ext \in {call.text \o <<"\n">> \o Lines[k]} :
              /\ ext \in Texts
              /\ \E outcome \in Outcomes :
                    \E r \in {GraphReturn(RunsOfTexts[hashSeed][ext], outcome, entities)} :
                        Returned(ext, outcome, r, FALSE)
    /\ phase' = "extended"

\* the graph-indexed scorer alone, a text and then the text with a line added
NextExtend == ScoreText \/ ScoreExtended

SpecExtend == InitScorer("graph") /\ [][NextExtend]_vars

\* The graph-indexed scorer scores another text that holds the same set of
\* statements as the observed one, in another order or with repetitions.
ScoreRearranged ==
    /\ variant = "graph"
    /\ phase \in {"closed", "rearranged"}
    /\ \E text \in RearrangedTexts[call.text], outcome \in Outcomes :
          \E r \in {GraphReturn(RunsOfTexts[hashSeed][text], outcome, entities)} :
              Returned(text, outcome, r, FALSE)
    /\ phase' = "rearranged"

\* the graph-indexed scorer alone, a text and then rearrangements of it
NextRearrange == ScoreText \/ ScoreRearranged

SpecRearrange == InitScorer("graph") /\ [][NextRearrange]_vars

(***************************************************************************)
(* What the last call left: the statements it parsed and the pairs it      *)
(* reported                                                                *)
(***************************************************************************)
\* the call returned to was made by the graph-indexed scorer
GraphCall == variant = "graph" /\ call.made

\* the statement (subj, rel, obj) was parsed
HasStatement(subj, rel, obj) ==
    \E i \in 1..Len(statements) :
        /\ statements[i].subject = subj
        /\ statements[i].relation = rel
        /\ statements[i].object = obj

\* every subject and object of the parsed statements
Names ==
    {statements[i].subject : i \in 1..Len(statements)}
        \cup {statements[i].object : i \in 1..Len(statements)}

Reported(pair) == InList(result.contradictions, pair)

DirectPair(E, T) == <<E \o SepIs \o T, E \o SepIsNot \o T>>

PropertyPair(E, P) == <<E \o SepHas \o P, E \o SepLacks \o P>>

TransitivePair(E, T, U) == <<E \o SepIs \o T \o SepAnd \o T \o SepIs \o U, E \o SepIsNot \o U>>

\* the input asserts a property contradiction or a one-hop transitive violation
AssertsPropertyContradiction ==
    \E E \in Names, P \in Names : HasStatement(E, "has", P) /\ HasStatement(E, "lacks", P)

AssertsTransitiveViolation ==
    \E A \in Names, B \in Names, C \in Names :
        HasStatement(A, "is", B) /\ HasStatement(B, "is", C) /\ HasStatement(A, "is_not", C)

(***************************************************************************)
(* C1                                                                      *)
(***************************************************************************)
\* C1: whatever the text and whatever the solver did (any residual, or an
\* exception), the score a call returns lies between 0 and 100, for the
\* graph-indexed and for the triple-indexed scorer.
C1_ScoreInRange == call.made => (result.score >= 0 /\ result.score <= 100)

\* the solver returned a residual above 1 on a text with a contradiction, and
\* the score was clamped to 0
C1_Witness ==
    /\ call.made
    /\ call.solver_calls = 1
    /\ call.outcome.ok
    /\ call.outcome.residual = 120
    /\ result.contradictions # <<>>
    /\ result.score = 0

(***************************************************************************)
(* C2                                                                      *)
(***************************************************************************)
\* C2: a call whose text yields no parsed statement returns score 100, no
\* contradictions and residual 0, and does not call the solver.
C2_NoStatements ==
    (call.made /\ statements = <<>>) =>
        /\ result.score = 100
        /\ result.contradictions = <<>>
        /\ result.residual = 0
        /\ call.solver_calls = 0

\* a text of blank lines and a comment line was scored after an earlier call
C2_Witness ==
    /\ call.made
    /\ ~call.was_fresh
    /\ call.text = TextBlankAndComment
    /\ statements = <<>>
    /\ result.score = 100

(***************************************************************************)
(* C3                                                                      *)
(***************************************************************************)
\* C3: the prose of test_no_logical_statements ('This is just regular text.'
\* / 'No logical statements here!') yields no parsed statement, score 100 and
\* no contradictions, whatever the solver does.
C3_ProseHasNoStatements ==
    (GraphCall /\ call.text = TextProse) =>
        /\ statements = <<>>
        /\ result.score = 100
        /\ result.contradictions = <<>>

C5_NoCrossCallPersistence ==
    (call.made /\ variant = "triple") =>
        LET fresh == compute_consistency_score_v2(call.text, call.outcome, <<>>, <<>>)
        IN /\ result.contradictions = fresh.result.contradictions
           /\ ("n_entities" \in DOMAIN result) => result.n_entities = fresh.result.n_entities
           /\ call.problem = fresh.problem

(***************************************************************************)
(* C6                                                                      *)
(***************************************************************************)
\* C6: the graph-indexed scorer reports the pair ("E is T", "E is not T") if
\* and only if both (E, is, T) and (E, is_not, T) were parsed, in whatever
\* order and however often; the 'is' description always comes first.
C6_DirectContradiction ==
    GraphCall =>
        /\ \A E \in Names, T \in Names :
              /\ Reported(DirectPair(E, T))
                    <=> (HasStatement(E, "is", T) /\ HasStatement(E, "is_not", T))
              /\ ~Reported(<<E \o SepIsNot \o T, E \o SepIs \o T>>)
        /\ \A k \in 1..Len(result.contradictions) :
              LET pair == result.contradictions[k]
              IN (~Contains(pair[1], SepAnd) /\ Contains(pair[2], SepIsNot)) =>
                    \E E \in Names, T \in Names : pair = DirectPair(E, T)

\* 'E is not T' came before 'E is T' in the text, one of them twice, and the
\* pair was reported
C6_Witness ==
    /\ GraphCall
    /\ Len(statements) = 3
    /\ statements[1].relation = "is_not"
    /\ \E j \in 2..3 :
          /\ statements[j].relation = "is"
          /\ statements[j].subject = statements[1].subject
          /\ statements[j].object = statements[1].object
    /\ \E i \in 1..2 : statements[i].raw_text = statements[i + 1].raw_text
    /\ Reported(DirectPair(statements[1].subject, statements[1].object))

(***************************************************************************)
(* C7                                                                      *)
(***************************************************************************)
\* C7: the text of test_direct_contradiction ('dog is animal' / 'dog is not
\* animal') scores strictly below 50, whatever the solver does.
C7_DirectBelowFifty ==
    (GraphCall /\ call.text = TextDirect) => result.score < 50

(***************************************************************************)
(* C8                                                                      *)
(***************************************************************************)
\* C8: the graph-indexed scorer reports the pair ("E has P", "E lacks P") if
\* and only if both (E, has, P) and (E, lacks, P) were parsed; without a
\* 'lacks' statement no property contradiction is reported.
C8_PropertyContradiction ==
    GraphCall =>
        /\ \A E \in Names, P \in Names :
              Reported(PropertyPair(E, P))
                  <=> (HasStatement(E, "has", P) /\ HasStatement(E, "lacks", P))
        /\ (\A i \in 1..Len(statements) : statements[i].relation # "lacks") =>
              \A k \in 1..Len(result.contradictions) :
                  ~Contains(result.contradictions[k][2], SepLacks)

(***************************************************************************)
(* C9                                                                      *)
(***************************************************************************)
\* C9: the graph-indexed scorer reports ("E is T and T is U", "E is not U") if
\* and only if (E, is, T), (T, is, U) and (E, is_not, U) were parsed; a chain
\* with two intermediate entities (a is b, b is c, c is d, a is not d) yields
\* no contradiction.
C9_OneHopTransitive ==
    GraphCall =>
        /\ \A E \in Names, T \in Names, U \in Names :
              Reported(TransitivePair(E, T, U))
                  <=> /\ HasStatement(E, "is", T)
                      /\ HasStatement(T, "is", U)
                      /\ HasStatement(E, "is_not", U)
        /\ \A k \in 1..Len(result.contradictions) :
              LET pair == result.contradictions[k]
              IN Contains(pair[1], SepAnd) =>
                    \E E \in Names, T \in Names, U \in Names : pair = TransitivePair(E, T, U)
        /\ call.text = TextTwoHops => result.contradictions = <<>>

\* a one-hop violation was parsed and reported, the direct pair of the same
\* two entities was not
C9_Witness ==
    /\ GraphCall
    /\ \E E \in Names, T \in Names, U \in Names :
          /\ E # T /\ T # U /\ E # U
          /\ HasStatement(E, "is", T)
          /\ HasStatement(T, "is", U)
          /\ HasStatement(E, "is_not", U)
          /\ Reported(TransitivePair(E, T, U))
          /\ ~Reported(DirectPair(E, U))

(***************************************************************************)
(* C10                                                                     *)
(***************************************************************************)
\* C10: when the text asserts a property contradiction (E has P, E lacks P)
\* or a one-hop transitive violation (A is B, B is C, A is not C), the
\* graph-indexed scorer reports at least one contradiction and a score below
\* 60, whatever the solver does.
C10_ContradictionBelowSixty ==
    (GraphCall /\ (AssertsPropertyContradiction \/ AssertsTransitiveViolation)) =>
        /\ Len(result.contradictions) >= 1
        /\ result.score < 60

\* the text of test_transitive_violation was scored with a solver residual of 0
C10_Witness ==
    /\ GraphCall
    /\ call.text = TextTransitive
    /\ AssertsTransitiveViolation
    /\ call.solver_calls = 1
    /\ call.outcome.ok
    /\ call.outcome.residual = 0
    /\ result.score = 50

(***************************************************************************)
(* C12                                                                     *)
(***************************************************************************)
\* C12: when the solver raises, the call returns normally: score 0 and
\* residual +infinity if a contradiction was detected, score 50 and residual 0
\* otherwise; the contradictions detected before the solver call are returned
\* as they were, and the solver was called once.
C12_SolverFailureRecovered ==
    (call.made /\ call.solver_calls > 0 /\ ~call.outcome.ok) =>
        /\ call.solver_calls = 1
        /\ result.contradictions # <<>> => (result.score = 0 /\ result.residual = Inf)
        /\ result.contradictions = <<>> => (result.score = 50 /\ result.residual = 0)
        /\ variant = "graph" =>
              result.contradictions = detect_contradictions(entities, hashSeed)

\* the solver raised on a text in which a contradiction had been detected
C12_Witness ==
    /\ call.made
    /\ call.solver_calls = 1
    /\ ~call.outcome.ok
    /\ result.contradictions # <<>>
    /\ result.score = 0
    /\ result.residual = Inf

(***************************************************************************)
(* C13                                                                     *)
(***************************************************************************)
\* C13: every returned result, on every path, has the eight fields score,
\* residual, contradictions, analysis, n_statements, n_entities, n_patches
\* and n_gluings.
C13_AllFields ==
    GraphCall =>
        {"score", "residual", "contradictions", "analysis",
         "n_statements", "n_entities", "n_patches", "n_gluings"} \subseteq DOMAIN result

(***************************************************************************)
(* C16                                                                     *)
(***************************************************************************)
\* C16: a call invokes the solver at most once, in both scorers: not at all
\* when no statement was parsed, exactly once otherwise, also when the solver
\* raised.
C16_SolverCalledOnce ==
    call.made =>
        /\ call.solver_calls <= 1
        /\ call.solver_calls = (IF statements = <<>> THEN 0 ELSE 1)

\* the solver raised in a call of the triple-indexed scorer and was called once
C16_Witness ==
    /\ call.made
    /\ variant = "triple"
    /\ statements # <<>>
    /\ ~call.outcome.ok
    /\ call.solver_calls = 1

C18_OpposingBeliefs ==
    (GraphCall /\ call.text = TextBeliefs) =>
        /\ Len(result.contradictions) >= 1
        /\ result.score < 60

(***************************************************************************)
(* C11                                                                     *)
(***************************************************************************)
\* C11: when a text without contradiction is scored and then the same text
\* with a line that creates a contradiction, the second score is not above
\* the first, whatever the solver does in the two calls.
C11_Monotonicity ==
    [][(phase' = "extended" /\ result.contradictions = <<>> /\ result'.contradictions # <<>>)
          => result'.score <= result.score]_vars

(***************************************************************************)
(* The lines of the scored text and the statements that came from each     *)
(***************************************************************************)
\* the lines parse_statements walks, numbered from 0
TextLines == Split(Strip(call.text), <<"\n">>)

LineOf(k) == Strip(TextLines[k + 1])

\* the statements whose statement_id is k or k + 0.5
StatementsOfLine(k) ==
    SelectSeq(statements, LAMBDA st : st.statement_id \in {2 * k, 2 * k + 1})

\* a blank line or a comment line
Skipped(line) == line = <<>> \/ StartsWith(line, <<"#">>)

\* the line has the form '<A> and <B> have <C>'
ConjShaped(line) ==
    \E i \in 1..Len(line) :
        OccursAt(line, SepAnd, i) /\ Find(line, SepHave, i + Len(SepAnd)) # 0

\* from is the one statement got by splitting line once at the first sep
SplitOnceAt(line, from, sep, rel) ==
    LET i == Find(line, sep, 1)
    IN /\ Len(from) = 1
       /\ from[1].relation = rel
       /\ from[1].subject = Strip(SubSeq(line, 1, i - 1))
       /\ from[1].object = RStripDot(Strip(Tail0(line, i + Len(sep))))

(***************************************************************************)
(* C14                                                                     *)
(***************************************************************************)
\* C14: a line '<A> and <B> have <C>' without ' is ', ' has ' or ' lacks '
\* yields exactly two statements, (A, has, C) then (B, has, C), both with the
\* line as raw text and with statement_id idx and idx + 0.5; the statement_ids
\* of the whole output are strictly increasing.
C14_ConjunctivePattern ==
    call.made =>
        /\ \A k \in 0..(Len(TextLines) - 1) :
              LET line == LineOf(k)
                  from == StatementsOfLine(k)
              IN (/\ ~Skipped(line)
                  /\ ~Contains(line, SepIs) /\ ~Contains(line, SepHas)
                  /\ ~Contains(line, SepLacks)
                  /\ ConjShaped(line)) =>
                    /\ Len(from) = 2
                    /\ from[1].statement_id = 2 * k /\ from[2].statement_id = 2 * k + 1
                    /\ from[1].relation = "has" /\ from[2].relation = "has"
                    /\ from[1].raw_text = line /\ from[2].raw_text = line
                    /\ from[1].object = from[2].object
                    /\ \E i \in 1..Len(line), j \in 1..Len(line) :
                          /\ OccursAt(line, SepAnd, i) /\ OccursAt(line, SepHave, j)
                          /\ j >= i + Len(SepAnd)
                          /\ from[1].subject = Strip(SubSeq(line, 1, i - 1))
                          /\ from[2].subject = Strip(SubSeq(line, i + Len(SepAnd), j - 1))
                          /\ from[1].object = RStripDot(Strip(Tail0(line, j + Len(SepHave))))
        /\ \A i \in 1..(Len(statements) - 1) :
              statements[i].statement_id < statements[i + 1].statement_id

\* the conjunctive line was line 3 of a text, after a blank and a comment line
C14_Witness ==
    /\ call.made
    /\ call.text = TextSkippedLines
    /\ Len(statements) = 4
    /\ statements[2].subject = NameA /\ statements[2].statement_id = 6
    /\ statements[3].subject = NameB /\ statements[3].statement_id = 7
    /\ statements[4].statement_id = 8

(***************************************************************************)
(* C15                                                                     *)
(***************************************************************************)
\* C15: the rules are tried in the order ' is not ', ' is ', ' has ',
\* ' lacks ', conjunctive, and the first whose separator is in the line
\* decides: a line with ' is not ' never gives an 'is' statement, a line gives
\* at most one statement, except that a conjunctive line gives exactly two.
C15_RulePriority ==
    call.made =>
        /\ \A k \in 0..(Len(TextLines) - 1) :
              LET line == LineOf(k)
                  from == StatementsOfLine(k)
                  AllOf(rel) == \A i \in 1..Len(from) : from[i].relation = rel
              IN /\ \A i \in 1..Len(from) : from[i].raw_text = line
                 /\ IF Skipped(line) THEN from = <<>>
                    ELSE IF Contains(line, SepIsNot) THEN Len(from) <= 1 /\ AllOf("is_not")
                    ELSE IF Contains(line, SepIs) THEN Len(from) <= 1 /\ AllOf("is")
                    ELSE IF Contains(line, SepHas) THEN Len(from) <= 1 /\ AllOf("has")
                    ELSE IF Contains(line, SepLacks) THEN Len(from) <= 1 /\ AllOf("lacks")
                    ELSE IF Contains(line, SepAnd) /\ Contains(line, SepHave)
                    THEN AllOf("has") /\ Len(from) = (IF ConjShaped(line) THEN 2 ELSE 0)
                    ELSE from = <<>>
        /\ \A i \in 1..Len(statements) :
              statements[i].statement_id \in 0..(2 * Len(TextLines) - 1)

\* a line with ' is not ' and, after it, ' is ' gave one is_not statement
C15_Witness ==
    /\ call.made
    /\ Len(statements) = 1
    /\ statements[1].relation = "is_not"
    /\ Contains(statements[1].object, SepIs)

(***************************************************************************)
(* C19                                                                     *)
(***************************************************************************)
\* C19: a line that contains ' is not ' yields exactly one is_not statement,
\* split once at the first occurrence of the separator (subject before it,
\* object all that follows), also when the separator occurs again; likewise
\* for ' is ', ' has ' and ' lacks ' when they decide.
C19_SplitOnce ==
    call.made =>
        \A k \in 0..(Len(TextLines) - 1) :
            LET line == LineOf(k)
                from == StatementsOfLine(k)
            IN IF Skipped(line) THEN TRUE
               ELSE IF Contains(line, SepIsNot) THEN SplitOnceAt(line, from, SepIsNot, "is_not")
               ELSE IF Contains(line, SepIs) THEN SplitOnceAt(line, from, SepIs, "is")
               ELSE IF Contains(line, SepHas) THEN SplitOnceAt(line, from, SepHas, "has")
               ELSE IF Contains(line, SepLacks) THEN SplitOnceAt(line, from, SepLacks, "lacks")
               ELSE TRUE

(***************************************************************************)
(* C20                                                                     *)
(***************************************************************************)
\* C20: in every parsed statement the subject and the object have no leading
\* or trailing whitespace and the object does not end with a period, also
\* when whitespace precedes the final period of the line.
C20_TrimmedFields ==
    call.made =>
        \A i \in 1..Len(statements) :
            /\ statements[i].subject = Strip(statements[i].subject)
            /\ statements[i].object = Strip(statements[i].object)
            /\ statements[i].object = RStripDot(statements[i].object)

(***************************************************************************)
(* The entity graph the last call of the graph-indexed scorer built        *)
(***************************************************************************)
\* the call went past the no-statement return, so build_entity_graph ran
BuiltGraph == GraphCall /\ statements # <<>>

EntityNames == {entities[i][1] : i \in 1..Len(entities)}

\* the objects of the statements with subject n and relation rel
ObjectsOf(n, rel) ==
    {statements[i].object :
        i \in {j \in 1..Len(statements) :
                  statements[j].subject = n /\ statements[j].relation = rel}}

(***************************************************************************)
(* C21                                                                     *)
(***************************************************************************)
\* C21: build_entity_graph makes an entity of exactly the names that are a
\* subject or the object of an is/is_not statement; the object of a has/lacks
\* statement goes only into the subject's property set, as P for has and as
\* not_P for lacks; each entity's relation set of a kind holds exactly the
\* objects its is/is_not statements of that kind name.
C21_EntityGraph ==
    BuiltGraph =>
        /\ EntityNames =
              {statements[i].subject : i \in 1..Len(statements)}
                  \cup {statements[i].object :
                           i \in {j \in 1..Len(statements) :
                                     statements[j].relation \in {"is", "is_not"}}}
        /\ Cardinality(EntityNames) = Len(entities)
        /\ \A i \in 1..Len(entities) :
              LET n == entities[i][1]
                  e == entities[i][2]
              IN /\ e.name = n
                 /\ e.properties =
                       ObjectsOf(n, "has") \cup {NotPrefix \o p : p \in ObjectsOf(n, "lacks")}
                 /\ \A k \in 1..Len(e.relations) : e.relations[k][1] \in {"is", "is_not"}
                 /\ \A rel \in {"is", "is_not"} :
                       /\ Rel(e, rel) = ObjectsOf(n, rel)
                       /\ DictHas(e.relations, rel) <=> ObjectsOf(n, rel) # {}

\* an is statement, a has and a lacks statement were parsed and the property
\* they name is no entity
C21_Witness ==
    /\ BuiltGraph
    /\ HasStatement(NameA, "is", NameB)
    /\ HasStatement(NameA, "has", NameW)
    /\ HasStatement(NameA, "lacks", NameW)
    /\ NameW \notin EntityNames
    /\ NameB \in EntityNames

(***************************************************************************)
(* The problem definition handed to the solver, statement by statement     *)
(***************************************************************************)
\* the patch of statement i (1-based) and the statement's place in it
PatchOf(i) == DictGet(call.problem.patches, statements[i].relation)

PlaceInPatch(i) ==
    Cardinality({j \in 1..i : statements[j].relation = statements[i].relation})

\* the vector and the target of statement i in the problem definition
VectorOf(i) == PatchOf(i).data[1][PlaceInPatch(i)]

TargetOf(i) == PatchOf(i).data[2][PlaceInPatch(i)]

\* statement i is one of the statements of a reported contradiction
InReportedContradiction(i) ==
    LET st == statements[i]
    IN \/ st.relation \in {"is", "is_not"} /\ Reported(DirectPair(st.subject, st.object))
       \/ st.relation \in {"has", "lacks"} /\ Reported(PropertyPair(st.subject, st.object))
       \/ \E A \in Names, B \in Names, C \in Names :
             /\ Reported(TransitivePair(A, B, C))
             /\ \/ st.relation = "is" /\ st.subject = A /\ st.object = B
                \/ st.relation = "is" /\ st.subject = B /\ st.object = C
                \/ st.relation = "is_not" /\ st.subject = A /\ st.object = C

(***************************************************************************)
(* C22                                                                     *)
(***************************************************************************)
\* C22: in the problem definition of the graph-indexed scorer a statement's
\* target is 0.0 if and only if the statement is one of the statements of a
\* reported contradiction; a statement of no contradiction keeps target 1.0,
\* also when its text is a substring of a contradictory statement's text.
C22_TargetsOfContradictions ==
    (GraphCall /\ call.solver_calls = 1) =>
        \A i \in 1..Len(statements) :
            TargetOf(i) = (IF InReportedContradiction(i) THEN 0 ELSE One)

(***************************************************************************)
(* The triples of the last call of the triple-indexed scorer               *)
(***************************************************************************)
\* the call was made by the triple-indexed scorer and reached the solver
TripleCall == variant = "triple" /\ call.made

\* the 0-based index k of the triple list is in some contradiction pair
InTriplePair(k) ==
    \E c \in 1..Len(call.triple_contradictions) :
        call.triple_contradictions[c][1] = k \/ call.triple_contradictions[c][2] = k

\* the target of triple k (0-based) in the problem definition
TripleTargetOf(k) ==
    LET rel == RelName(call.triples[k + 1].relation_id)
        place == Cardinality({j \in 1..(k + 1) :
                                 call.triples[j].relation_id = call.triples[k + 1].relation_id})
    IN DictGet(call.problem.patches, rel).data[2][place]

(***************************************************************************)
(* C23                                                                     *)
(***************************************************************************)
\* C23: in the problem definition of the triple-indexed scorer a triple's
\* target is 0.0 if and only if its index in the triple list is a member of
\* some contradiction pair; both triples of every pair get 0.0, whichever
\* patches they are in.
C23_TripleTargets ==
    (TripleCall /\ call.solver_calls = 1) =>
        \A k \in 0..(Len(call.triples) - 1) :
            TripleTargetOf(k) = (IF InTriplePair(k) THEN 0 ELSE One)

(***************************************************************************)
(* C24                                                                     *)
(***************************************************************************)
\* C24: with k patches the problem definition of the graph-indexed scorer has
\* exactly one gluing for each unordered pair of distinct patches, k*(k-1)/2
\* in all, the is/is_not pair once; no gluing joins a patch to itself and the
\* constraint vectors of a gluing are the first vectors of its two patches.
C24_Gluings ==
    (GraphCall /\ call.solver_calls = 1) =>
        LET patches == call.problem.patches
            gluings == call.problem.gluings
            names == {patches[i][1] : i \in 1..Len(patches)}
        IN /\ \A i \in 1..Len(patches) : patches[i][2].data[1] # <<>>
           /\ 2 * Len(gluings) = Len(patches) * (Len(patches) - 1)
           /\ \A g \in 1..Len(gluings) :
                 /\ gluings[g].patch_1 \in names /\ gluings[g].patch_2 \in names
                 /\ gluings[g].patch_1 # gluings[g].patch_2
                 /\ gluings[g].constraint_data_1 = DictGet(patches, gluings[g].patch_1).data[1][1]
                 /\ gluings[g].constraint_data_2 = DictGet(patches, gluings[g].patch_2).data[1][1]
           /\ \A x \in names : \A y \in names \ {x} :
                 Cardinality({g \in 1..Len(gluings) :
                                 {gluings[g].patch_1, gluings[g].patch_2} = {x, y}}) = 1

\* three patches, "is" and "is_not" among them, and three gluings
C24_Witness ==
    /\ GraphCall /\ call.solver_calls = 1
    /\ Len(call.problem.patches) = 3
    /\ DictHas(call.problem.patches, "is") /\ DictHas(call.problem.patches, "is_not")
    /\ Len(call.problem.gluings) = 3

(***************************************************************************)
(* C25                                                                     *)
(***************************************************************************)
\* the property labels and the relation kinds of the graph
PropertyLabels == UNION {entities[i][2].properties : i \in 1..Len(entities)}

RelationKinds ==
    UNION {{entities[i][2].relations[k][1] : k \in 1..Len(entities[i][2].relations)} :
              i \in 1..Len(entities)}

\* the 1-based slot of an entity and of a relation kind in a statement vector
EntitySlot(n) == IndexOf(DictKeys(entities), n) + 1

RelationSlot(rel) ==
    Len(entities) + Cardinality(PropertyLabels)
        + (IF rel = "is_not" /\ "is" \in RelationKinds THEN 2 ELSE 1)

\* C25: every statement vector of the graph-indexed scorer has dimension
\* |entities| + |property labels| + |relation kinds present| and holds 1 in the
\* slot of the statement's subject; for an is/is_not statement the relation
\* slot holds 1 and the object's slot holds 0.5, also when subject and object
\* are the same name.
C25_Encoding ==
    (GraphCall /\ call.solver_calls = 1) =>
        \A i \in 1..Len(statements) :
            /\ Len(VectorOf(i)) =
                  Len(entities) + Cardinality(PropertyLabels) + Cardinality(RelationKinds)
            /\ VectorOf(i)[EntitySlot(statements[i].subject)] = One
            /\ statements[i].relation \in {"is", "is_not"} =>
                  /\ VectorOf(i)[RelationSlot(statements[i].relation)] = One
                  /\ VectorOf(i)[EntitySlot(statements[i].object)] = Half

(***************************************************************************)
(* C26                                                                     *)
(***************************************************************************)
\* the direct-relation and property pairs the graph-indexed detector reports
\* for a statement list
GraphDirectAndPropertyPairs(stmts) ==
    LET ents == build_entity_graph(stmts)
        found == ConcatAll([i \in 1..Len(ents) |->
                     DirectPairs(ents[i][1], ents[i][2], 0)
                         \o PropertyPairs(ents[i][1], ents[i][2], 0)])
    IN {found[k] : k \in 1..Len(found)}

\* the pairs of the triple-indexed detector, written as the graph-indexed
\* detector writes the contradiction of that entity and target
TriplePairsAsText ==
    {LET st == statements[call.triples[call.triple_contradictions[c][1] + 1].source_stmt + 1]
     IN IF st.relation \in {"is", "is_not"} THEN DirectPair(st.subject, st.object)
        ELSE PropertyPair(st.subject, st.object) :
        c \in 1..Len(call.triple_contradictions)}

\* C26: on a fresh scorer the triple-indexed detector reports a contradiction
\* if and only if the graph-indexed detector reports a direct-relation or
\* property contradiction for the same statements, and the two name the same
\* (entity, target) pairs.
C26_DetectorsAgree ==
    (TripleCall /\ call.was_fresh /\ statements # <<>>) =>
        /\ (call.triple_contradictions # <<>>) <=> (GraphDirectAndPropertyPairs(statements) # {})
        /\ TriplePairsAsText = GraphDirectAndPropertyPairs(statements)

(***************************************************************************)
(* C27                                                                     *)
(***************************************************************************)
\* the ids of a name-to-id map are 0..n-1 in first-seen order
DenseIds(map) == \A i \in 1..Len(map) : map[i][2] = i - 1

\* C27: after build_knowledge_structure, on a fresh or a reused triple-indexed
\* scorer, the entity map and the property map each give the ids 0..n-1 in
\* first-seen order (so they are injective), every statement has produced
\* exactly one triple, and truth_value is +1 for is/has and -1 for
\* is_not/lacks.
C27_KnowledgeStructure ==
    (TripleCall /\ statements # <<>>) =>
        /\ DenseIds(entities)
        /\ DenseIds(properties)
        /\ Len(call.triples) = Len(statements)
        /\ \A k \in 1..Len(call.triples) :
              /\ call.triples[k].source_stmt = k - 1
              /\ call.triples[k].truth_value =
                    (IF statements[k].relation \in {"is", "has"} THEN 1 ELSE -1)

(***************************************************************************)
(* C28                                                                     *)
(***************************************************************************)
\* C28: after every call on a graph-indexed scorer, on any path and after any
\* earlier calls, the entities field is build_entity_graph of the statements
\* field of the text just scored; no entity of an earlier text is left.
C28_EntitiesOfLastText ==
    GraphCall =>
        /\ entities = build_entity_graph(statements)
        /\ EntityNames \subseteq Names

(***************************************************************************)
(* C29                                                                     *)
(***************************************************************************)
\* the graph as a mapping from entity name to property set and relation sets
GraphMapping(ents) ==
    {<<ents[i][1], ents[i][2].properties,
       {<<ents[i][2].relations[k][1], ents[i][2].relations[k][2]>> :
           k \in 1..Len(ents[i][2].relations)}>> : i \in 1..Len(ents)}

PairSet(contradictions) == {contradictions[k] : k \in 1..Len(contradictions)}

\* C29: the graph and the contradictions depend only on the set of
\* statements: a text with the same statements in another order or with
\* repetitions gives the same mapping from entity name to property set and
\* relation sets, the same set of contradiction pairs and the same number of
\* reported pairs.
C29_OrderIndependence ==
    [][phase' = "rearranged" =>
          /\ GraphMapping(entities') = GraphMapping(entities)
          /\ PairSet(result'.contradictions) = PairSet(result.contradictions)
          /\ Len(result'.contradictions) = Len(result.contradictions)]_vars

\* three statements with a transitive violation were scored in another order
\* than the one scored before
C29_Witness ==
    /\ phase = "rearranged"
    /\ Len(statements) = 3
    /\ statements[1].relation = "is_not"
    /\ Reported(TransitivePair(NameA, NameB, NameC))

(***************************************************************************)
(* C30                                                                     *)
(***************************************************************************)
\* C30: when parse_statements returned at least one statement,
\* encode_as_vectors gives one vector and one target per statement, of
\* dimension at least 1; the call never returns the 'Unable to encode
\* statements for analysis.' result and reaches the solver.
C30_AlwaysEncoded ==
    BuiltGraph =>
        /\ result.analysis # <<"Unable to encode statements for analysis.">>
        /\ call.solver_calls = 1
        /\ \A p \in 1..Len(call.problem.patches) :
              LET name == call.problem.patches[p][1]
                  data == call.problem.patches[p][2].data
              IN /\ Len(data[1]) =
                       Cardinality({i \in 1..Len(statements) : statements[i].relation = name})
                 /\ Len(data[2]) = Len(data[1])
        /\ \A i \in 1..Len(statements) :
              /\ DictHas(call.problem.patches, statements[i].relation)
              /\ Len(VectorOf(i)) >= 1

\* statements without any property label were encoded and given to the solver
C30_Witness ==
    /\ BuiltGraph
    /\ call.solver_calls = 1
    /\ Len(statements) = 3
    /\ PropertyLabels = {}
    /\ \A i \in 1..Len(statements) : Len(VectorOf(i)) = 5

====
